---- MODULE Spec2Model ----
(***************************************************************************)
(* A model of chogm.py: the Manager, its (up to six) Workers, the          *)
(* multiprocessing pipe between the main process and each worker process,  *)
(* and the xargs subprocess each worker process starts.                    *)
(*                                                                         *)
(* The file only parses as Python 3 (print(..., file=...) with no          *)
(* __future__ import), so the model follows Python 3:                      *)
(*   - Popen at line 159 is given no text/encoding argument, so            *)
(*     xargs.stdin is a binary stream and communicate() returns bytes;     *)
(*   - print(filename, file=xargs.stdin) at line 172 hands a str to that   *)
(*     binary stream: TypeError, which `except EOFError` does not catch;   *)
(*   - stderrdata.rstrip('\r\n') at line 185 strips bytes with a str:      *)
(*     TypeError, raised before pipe_parent.send is called.                *)
(* An exception that leaves runner() ends the worker process.              *)
(***************************************************************************)
EXTENDS Naturals, Sequences, FiniteSets

\* ------------------------------------------------------------- bounds
\* Driver calls (do_file, do_dir, report_error, report_information) made before
\* finish().
MaxCalls == 2
\* Messages one direction of the multiprocessing pipe buffers before send() blocks.
PipeCap == 1
\* Worker processes whose Popen of xargs fails.
MaxSpawnFail == 1

\* ------------------------------------------------------------- values
\* Python values that travel through the model: None, str, bytes and int.
None == <<"None">>
Str(s) == <<"str", s>>
Bytes(s) == <<"bytes", s>>
Int(n) == <<"int", n>>

\* The Ogm objects a Manager is given. A field is None (as Ogm() leaves it),
\* '' or a name (as main() stores them); the fields left empty in one Ogm hold
\* the same empty value.
Ogms == UNION {[owner : {e, Str("u")}, group : {e, Str("u")}, mode : {e, Str("u")}] :
                 e \in {None, Str("")}}
\* The paths the driver hands to do_file / do_dir.
Paths == {Str(""), Str("a")}
\* The messages the driver hands to report_error.
Messages == {Str("cannot access")}
\* The messages the driver hands to report_information.
InfoMessages == {Str("Processing directory")}
\* What xargs can leave behind: its return code and its stderr bytes.
ExitCodes == {Int(0), Int(1)}
StderrData == {Bytes(""), Bytes("chmod: Operation not permitted\n")}

\* The six Worker attributes of Manager, in the order finish() fires them.
FireOrder == <<"fchown", "dchown", "fchgrp", "dchgrp", "fchmod", "dchmod">>
Slots == {FireOrder[i] : i \in 1..6}
\* The order in which do_file / do_dir go through their Workers.
FileSlots == <<"fchown", "fchgrp", "fchmod">>
DirSlots == <<"dchown", "dchgrp", "dchmod">>

VARIABLES
  fogm, dogm,     \* Manager.fogm, Manager.dogm: [owner, group, mode]
  verbose,        \* Manager.verbose
  worker,         \* worker[s]: Manager.<s> is a Worker (TRUE) or None (FALSE)
  haveError,      \* Manager.haveError
  stderr,         \* what the main process has printed to sys.stderr, in order
  pc,             \* where the main process is
  cur,            \* the argument of the do_file / do_dir call in progress (else None)
  todo,           \* the Workers that call has still to add() to
  fireIdx,        \* the index in FireOrder of the fire() call in progress
  rc,             \* what finish() returned (None until it returns)
  ncalls,         \* driver calls made so far
  pipe,           \* pipe[s]: sent on pipe_child, not yet received on pipe_parent
  result,         \* result[s]: sent on pipe_parent, not yet received on pipe_child
  rpc,            \* rpc[s]: where worker process s is in runner()
  xargs,          \* xargs[s]: the xargs subprocess of s was started
  xstdin,         \* xstdin[s]: the lines written to xargs.stdin
  returncode,     \* returncode[s]: xargs.returncode (None until waited for)
  stderrdata,     \* stderrdata[s]: what communicate() returned as stderr
  submitted,      \* history: every argument of Worker.add, per Worker
  fdisp, ddisp    \* history: the arguments of do_file and of do_dir

vars == <<fogm, dogm, verbose, worker, haveError, stderr, pc, cur, todo, fireIdx, rc, ncalls,
          pipe, result, rpc, xargs, xstdin, returncode, stderrdata,
          submitted, fdisp, ddisp>>

mgrVars == <<haveError, stderr, pc, cur, todo, fireIdx, rc, ncalls, fdisp, ddisp>>
procVars == <<rpc, xargs, xstdin, returncode, stderrdata, result>>
cfgVars == <<fogm, dogm, verbose, worker>>

\* ------------------------------------------------------------- helpers
\* Python truthiness of an Ogm field: None and '' are false.
Truthy(v) == v # None /\ v # Str("")

\* The Ogm field that decides slot s in Manager.__init__.
Field(f, d, s) ==
  CASE s = "fchown" -> f.owner
    [] s = "dchown" -> d.owner
    [] s = "fchgrp" -> f.group
    [] s = "dchgrp" -> d.group
    [] s = "fchmod" -> f.mode
    [] s = "dchmod" -> d.mode

\* `if fogm.owner: self.fchown = Worker(...)`: whether a Worker is created.
HasWorker_NotNone(v) == v # None
HasWorker(v) == Truthy(v)

\* The Workers do_file adds to: `if self.fchown: ... if self.fchgrp: ... if self.fchmod:`.
FileTargets_AllWorkers(w) == SelectSeq(FireOrder, LAMBDA s : w[s])
FileTargets(w) == SelectSeq(FileSlots, LAMBDA s : w[s])
\* The Workers do_dir adds to.
DirTargets(w) == SelectSeq(DirSlots, LAMBDA s : w[s])

\* Connection.send on pipe_child returns once the message is buffered; it
\* blocks while the buffer is full.
CanSend(s) == Len(pipe[s]) < PipeCap

\* The last index >= i in FireOrder whose fire() finds a Worker; 7 when none.
NextFire_Last(w, i) ==
  LET created == {j \in i..6 : w[FireOrder[j]]}
  IN IF created = {} THEN 7 ELSE CHOOSE j \in created : \A k \in created : k <= j
\* The first index >= i in FireOrder whose fire() finds a Worker; 7 when none.
RECURSIVE NextFire(_, _)
NextFire(w, i) == IF i > 6 THEN 7 ELSE IF w[FireOrder[i]] THEN i ELSE NextFire(w, i + 1)

\* The runner states in which the worker process has ended with an exception.
Crashed == {"crashed_popen", "crashed_print", "crashed_rstrip"}

\* `if filename == None`: the test runner() makes for "no more work".
IsSentinel(filename) == filename = None

\* print(filename, file=xargs.stdin): xargs.stdin is a binary stream, so writing
\* a str raises TypeError and nothing reaches the stream.
PrintToStdin(stream, filename) == [raised |-> TRUE, stream |-> stream]

\* stderrdata.rstrip('\r\n'): stderrdata is bytes, the argument a str: TypeError.
Rstrip(data) == [raised |-> TRUE, value |-> None]

\* ------------------------------------------------------------- Init
\* The state after Manager(fogm, dogm, verbose): each Worker that was created has
\* started its process. The first statement of runner(), the Popen of xargs,
\* reads and writes nothing the main process or another worker process sees,
\* so Init takes each worker process at the end of it: in its first
\* pipe_parent.recv(), or ended by the OSError of a Popen that could not start
\* xargs (nothing in runner() catches it).
Init ==
  /\ fogm \in Ogms
  /\ dogm \in Ogms
  /\ verbose \in BOOLEAN
  /\ worker = [s \in Slots |-> HasWorker(Field(fogm, dogm, s))]
  /\ haveError = FALSE
  /\ stderr = <<>>
  /\ pc = "main"
  /\ cur = None
  /\ todo = <<>>
  /\ fireIdx = 0
  /\ rc = None
  /\ ncalls = 0
  /\ pipe = [s \in Slots |-> <<>>]
  /\ result = [s \in Slots |-> <<>>]
  /\ rpc \in [Slots -> {"none", "recv", "crashed_popen"}]
  /\ \A s \in Slots : (rpc[s] = "none") <=> ~worker[s]
  /\ Cardinality({s \in Slots : rpc[s] = "crashed_popen"}) <= MaxSpawnFail
  /\ xargs = [s \in Slots |-> rpc[s] = "recv"]
  /\ xstdin = [s \in Slots |-> <<>>]
  /\ returncode = [s \in Slots |-> None]
  /\ stderrdata = [s \in Slots |-> None]
  /\ submitted = [s \in Slots |-> <<>>]
  /\ fdisp = <<>>
  /\ ddisp = <<>>

\* ------------------------------------------------------------- main process
\* Worker.add(file): pipe_child.send(file).
WorkerAdd(s, file) ==
  /\ CanSend(s)
  /\ pipe' = [pipe EXCEPT ![s] = Append(@, file)]
  /\ submitted' = [submitted EXCEPT ![s] = Append(@, file)]

\* The driver calls do_file(file): the call starts; its add() calls follow,
\* one per step, because each can block on a full pipe.
DoFile(file) ==
  /\ pc = "main"
  /\ ncalls < MaxCalls
  /\ ncalls' = ncalls + 1
  /\ fdisp' = Append(fdisp, file)
  /\ todo' = FileTargets(worker)
  /\ cur' = IF todo' = <<>> THEN None ELSE file
  /\ pc' = IF todo' = <<>> THEN "main" ELSE "dispatch"
  /\ UNCHANGED <<haveError, stderr, fireIdx, rc, ddisp, pipe, submitted>>
  /\ UNCHANGED procVars
  /\ UNCHANGED cfgVars

\* The driver calls do_dir(file).
DoDir(file) ==
  /\ pc = "main"
  /\ ncalls < MaxCalls
  /\ ncalls' = ncalls + 1
  /\ ddisp' = Append(ddisp, file)
  /\ todo' = DirTargets(worker)
  /\ cur' = IF todo' = <<>> THEN None ELSE file
  /\ pc' = IF todo' = <<>> THEN "main" ELSE "dispatch"
  /\ UNCHANGED <<haveError, stderr, fireIdx, rc, fdisp, pipe, submitted>>
  /\ UNCHANGED procVars
  /\ UNCHANGED cfgVars

\* The next `self.<s>.add(file)` of the do_file / do_dir call in progress; the
\* call returns after its last one.
DispatchAdd ==
  /\ pc = "dispatch"
  /\ WorkerAdd(Head(todo), cur)
  /\ todo' = Tail(todo)
  /\ cur' = IF todo' = <<>> THEN None ELSE cur
  /\ pc' = IF todo' = <<>> THEN "main" ELSE "dispatch"
  /\ UNCHANGED <<haveError, stderr, fireIdx, rc, ncalls, fdisp, ddisp>>
  /\ UNCHANGED procVars
  /\ UNCHANGED cfgVars

\* Manager.report_error(message), called by the driver.
ReportError(message) ==
  /\ pc = "main"
  /\ ncalls < MaxCalls
  /\ ncalls' = ncalls + 1
  /\ haveError' = TRUE
  /\ stderr' = Append(stderr, message)
  /\ UNCHANGED <<pc, cur, todo, fireIdx, rc, fdisp, ddisp, pipe, submitted>>
  /\ UNCHANGED procVars
  /\ UNCHANGED cfgVars

\* Manager.report_information(message), called by the driver: the message is
\* printed when verbose is set, and nothing else happens.
ReportInformation_SetsError(message) ==
  /\ pc = "main"
  /\ ncalls < MaxCalls
  /\ ncalls' = ncalls + 1
  /\ haveError' = TRUE
  /\ stderr' = IF verbose THEN Append(stderr, message) ELSE stderr
  /\ UNCHANGED <<pc, cur, todo, fireIdx, rc, fdisp, ddisp, pipe, submitted>>
  /\ UNCHANGED procVars
  /\ UNCHANGED cfgVars
ReportInformation(message) ==
  /\ pc = "main"
  /\ ncalls < MaxCalls
  /\ ncalls' = ncalls + 1
  /\ stderr' = IF verbose THEN Append(stderr, message) ELSE stderr
  /\ UNCHANGED <<haveError, pc, cur, todo, fireIdx, rc, fdisp, ddisp, pipe, submitted>>
  /\ UNCHANGED procVars
  /\ UNCHANGED cfgVars

\* The driver calls finish(): the first fire() is next.
Finish_ResetsFlag ==
  /\ pc = "main"
  /\ pc' = "finish"
  /\ fireIdx' = 1
  /\ haveError' = FALSE
  /\ UNCHANGED <<stderr, cur, todo, rc, ncalls, fdisp, ddisp, pipe, submitted>>
  /\ UNCHANGED procVars
  /\ UNCHANGED cfgVars
Finish ==
  /\ pc = "main"
  /\ pc' = "finish"
  /\ fireIdx' = 1
  /\ UNCHANGED <<haveError, stderr, cur, todo, rc, ncalls, fdisp, ddisp, pipe, submitted>>
  /\ UNCHANGED procVars
  /\ UNCHANGED cfgVars

\* finish() goes through its fire() calls: a fire(None) does nothing; the
\* first fire(worker) with a Worker does worker.add(None) and enters
\* worker.gohome().
FireAdd ==
  /\ pc = "finish"
  /\ NextFire(worker, fireIdx) <= 6
  /\ fireIdx' = NextFire(worker, fireIdx)
  /\ WorkerAdd(FireOrder[fireIdx'], None)
  /\ pc' = "gohome"
  /\ UNCHANGED <<haveError, stderr, cur, todo, rc, ncalls, fdisp, ddisp>>
  /\ UNCHANGED procVars
  /\ UNCHANGED cfgVars

\* No fire(worker) with a Worker is left: finish() returns 1 or 0.
FinishReturn ==
  /\ pc = "finish"
  /\ NextFire(worker, fireIdx) = 7
  /\ fireIdx' = 7
  /\ rc' = IF haveError THEN Int(1) ELSE Int(0)
  /\ pc' = "done"
  /\ UNCHANGED <<haveError, stderr, cur, todo, ncalls, fdisp, ddisp, pipe, submitted>>
  /\ UNCHANGED procVars
  /\ UNCHANGED cfgVars

\* The Worker whose gohome() the main process is in.
Firing == FireOrder[fireIdx]

\* gohome() is in pipe_child.recv(): it returns when the worker process has
\* sent its result. The main process itself keeps pipe_parent open (line 135
\* is commented out), so the end of the worker process raises no EOFError here:
\* with no result sent, the recv never returns.
GoHomeWaiting == pc = "gohome" /\ result[Firing] = <<>>

\* ------------------------------------------------------------- worker process
\* runner(), one turn of the loop: pipe_parent.recv(); None breaks out of the
\* loop; anything else is printed to xargs.stdin, which raises.
RunnerRecv(s) ==
  /\ rpc[s] = "recv"
  /\ pipe[s] # <<>>
  /\ pipe' = [pipe EXCEPT ![s] = Tail(@)]
  /\ LET filename == Head(pipe[s])
         wr == PrintToStdin(xstdin[s], filename)
     IN IF IsSentinel(filename)
          THEN /\ rpc' = [rpc EXCEPT ![s] = "drain"]
               /\ xstdin' = xstdin
          ELSE /\ xstdin' = [xstdin EXCEPT ![s] = wr.stream]
               /\ rpc' = [rpc EXCEPT ![s] = IF wr.raised THEN "crashed_print" ELSE "recv"]
  /\ UNCHANGED <<xargs, returncode, stderrdata, result, submitted>>
  /\ UNCHANGED mgrVars
  /\ UNCHANGED cfgVars

\* runner() after the loop: xargs.communicate() closes xargs.stdin, reads its
\* output to the end and waits for it: xargs ends with `code` and `err`. Then
\* line 185 evaluates stderrdata.rstrip('\r\n') before the send: it raises, the
\* result is not sent and the worker process ends.
RunnerCommunicate_SetsFlag(s, code, err) ==
  /\ rpc[s] = "drain"
  /\ returncode' = [returncode EXCEPT ![s] = code]
  /\ stderrdata' = [stderrdata EXCEPT ![s] = err]
  /\ LET stripped == Rstrip(err)
     IN IF stripped.raised
          THEN /\ rpc' = [rpc EXCEPT ![s] = "crashed_rstrip"]
               /\ result' = result
          ELSE /\ rpc' = [rpc EXCEPT ![s] = "sent"]
               /\ result' = [result EXCEPT ![s] = Append(@, <<code, stripped.value>>)]
  /\ UNCHANGED <<xargs, xstdin, pipe, submitted>>
  /\ haveError' = (haveError \/ code # Int(0))
  /\ UNCHANGED <<stderr, pc, cur, todo, fireIdx, rc, ncalls, fdisp, ddisp>>
  /\ UNCHANGED cfgVars
RunnerCommunicate(s, code, err) ==
  /\ rpc[s] = "drain"
  /\ returncode' = [returncode EXCEPT ![s] = code]
  /\ stderrdata' = [stderrdata EXCEPT ![s] = err]
  /\ LET stripped == Rstrip(err)
     IN IF stripped.raised
          THEN /\ rpc' = [rpc EXCEPT ![s] = "crashed_rstrip"]
               /\ result' = result
          ELSE /\ rpc' = [rpc EXCEPT ![s] = "sent"]
               /\ result' = [result EXCEPT ![s] = Append(@, <<code, stripped.value>>)]
  /\ UNCHANGED <<xargs, xstdin, pipe, submitted>>
  /\ UNCHANGED mgrVars
  /\ UNCHANGED cfgVars

\* runner() has left its loop through the break of lines 167-170.
SentinelReceived(s) == rpc[s] \in {"drain", "crashed_rstrip", "sent"}

\* The input of the xargs of s is closed: by communicate() (line 181), or by the
\* end of the worker process, which held the only write end of it.
StdinClosed(s) == xargs[s] /\ rpc[s] \in {"crashed_print", "crashed_rstrip", "sent"}

\* ------------------------------------------------------------- specification
\* examine(m, thisfile, ...): what it calls on the Manager for one path, by
\* what the path turns out to be: do_file for a file, do_dir for a directory
\* (and report_information when recursing into it), report_error for a path
\* that is neither or a directory that cannot be listed. main() calls it for
\* each path in turn, then finish().
Examine ==
  \/ \E file \in Paths : DoFile(file)
  \/ \E file \in Paths : DoDir(file)
  \/ \E message \in Messages : ReportError(message)
  \/ \E message \in InfoMessages : ReportInformation(message)

Next ==
  \/ Examine
  \/ DispatchAdd
  \/ Finish
  \/ FireAdd
  \/ FinishReturn
  \/ \E s \in Slots : RunnerRecv(s)
  \/ \E s \in Slots, code \in ExitCodes, err \in StderrData : RunnerCommunicate(s, code, err)

Spec == Init /\ [][Next]_vars

\* ------------------------------------------------------------- claims
\* The paths among the arguments of add(): everything but the None of fire().
PathsOf(seq) == SelectSeq(seq, LAMBDA m : m # None)
Range(seq) == {seq[i] : i \in DOMAIN seq}
FileClass == Range(FileSlots)

\* Nothing can take a step any more: the run is over, or is stuck for good.
Quiescent == ~ENABLED Next
\* No worker process was ended by a failing Popen.
NoSpawnFailure == \A s \in Slots : rpc[s] # "crashed_popen"
\* The paths worker process s has taken out of its pipe so far.
Consumed(s) ==
  LET all == PathsOf(submitted[s])
  IN SubSeq(all, 1, Len(all) - Len(PathsOf(pipe[s])))
\* report_error has been called: its message is on sys.stderr.
ErrorReported == \E i \in DOMAIN stderr : stderr[i] \in Messages
\* How many times `text` has been printed.
Printed(text) == Cardinality({i \in DOMAIN stderr : stderr[i] = text})

\* C1: finish() returns, and returns 1 if report_error was called or a Worker's
\* xargs ended with a nonzero code, 0 otherwise (stated for the runs in which
\* every xargs could be started).
C1_FinishReturnsErrorCode ==
  (Quiescent /\ NoSpawnFailure) =>
    /\ pc = "done"
    /\ rc = IF ErrorReported \/ (\E s \in Slots : returncode[s] \notin {None, Int(0)})
              THEN Int(1) ELSE Int(0)

\* C2: a Worker of the file class has been handed exactly the arguments of
\* do_file, in order and once each, a Worker of the directory class exactly the
\* arguments of do_dir, and an empty slot nothing; while a call is still going
\* through its Workers, those it has not reached yet lack only its argument.
C2_Routing ==
  \A s \in Slots :
    LET disp == IF s \in FileClass THEN fdisp ELSE ddisp
        got == PathsOf(submitted[s])
    IN IF ~worker[s] THEN got = <<>>
       ELSE IF pc = "dispatch" /\ s \in Range(todo)
              THEN got = SubSeq(disp, 1, Len(disp) - 1)
              ELSE got = disp

\* C2's case: calls of both kinds have returned, with different arguments, and
\* Workers of both classes exist.
C2_Witness ==
  /\ pc = "main"
  /\ fdisp # <<>> /\ ddisp # <<>> /\ fdisp # ddisp
  /\ \E s \in FileClass : worker[s]
  /\ \E s \in Slots \ FileClass : worker[s]

\* C3: a slot holds a Worker (with its worker process) exactly when its Ogm
\* field is neither None nor ''; a slot without one has no worker process and
\* no xargs, is never handed anything, not even the None of fire(), and finish()
\* never waits in its gohome().
C3_WorkerIffField ==
  \A s \in Slots :
    LET v == Field(fogm, dogm, s)
    IN /\ worker[s] <=> (v # None /\ v # Str(""))
       /\ (rpc[s] # "none") <=> worker[s]
       /\ xargs[s] => worker[s]
       /\ ~worker[s] =>
            /\ submitted[s] = <<>>
            /\ pipe[s] = <<>>
            /\ ~(pc = "gohome" /\ Firing = s)

\* C3's case: finish() is at work, one Ogm has a field of None, the other a
\* field of '', and a Worker of a third field has been handed a path and None.
C3_Witness ==
  /\ pc = "gohome"
  /\ \E s \in Slots : Field(fogm, dogm, s) = None
  /\ \E s \in Slots : Field(fogm, dogm, s) = Str("")
  /\ \E s \in Slots : worker[s] /\ xargs[s] /\ Len(submitted[s]) = 2

\* C4: what a worker process has written to xargs.stdin is exactly the paths
\* it has received, in the order of their add() calls.
C4_StdinIsSubmitted == \A s \in Slots : xstdin[s] = Consumed(s)

\* C5: when the Popen of one Worker has failed (and nothing else went wrong),
\* finish() still returns, with 1, having fired every other Worker.
C5_SpawnFailureStillFinishes ==
  (/\ Quiescent
   /\ \E s \in Slots : rpc[s] = "crashed_popen"
   /\ \A s \in Slots : rpc[s] \notin {"crashed_print", "crashed_rstrip"}) =>
    /\ pc = "done"
    /\ rc = Int(1)
    /\ \A s \in Slots : (worker[s] /\ rpc[s] # "crashed_popen") => None \in Range(submitted[s])

\* C6: finish() returns (every xargs was started, and every xargs ends once
\* its input is closed): when nothing can run any more, finish() has returned
\* and every Worker was sent None and has delivered its result.
C6_FinishIsBarrier ==
  (Quiescent /\ NoSpawnFailure) =>
    /\ pc = "done"
    /\ \A s \in Slots : worker[s] => (None \in Range(submitted[s]) /\ rpc[s] = "sent")

\* C7: an add() of do_file / do_dir can always complete at once, whatever the
\* worker processes have or have not done.
C7_AddNeverBlocks == pc = "dispatch" => CanSend(Head(todo))

\* C8: a Worker whose xargs has been waited for has produced exactly one result.
C8_ExactlyOneResult ==
  \A s \in Slots : returncode[s] # None => (rpc[s] = "sent" /\ Len(result[s]) = 1)

\* C9: at the end, report_error has printed the stderr text of every Worker
\* whose xargs ended with a nonzero code, exactly once.
C9_WorkerErrorsReported ==
  Quiescent =>
    \A s \in Slots : returncode[s] \notin {None, Int(0)} => Printed(stderrdata[s]) = 1

\* C10: when the xargs of one Worker ended with a nonzero code, every other
\* Worker is still sent None and has every path it was handed written to its
\* xargs.
C10_FailureDoesNotAbortOthers ==
  Quiescent =>
    \A s \in Slots : returncode[s] \notin {None, Int(0)} =>
      \A o \in Slots \ {s} : worker[o] =>
        /\ None \in Range(submitted[o])
        /\ xstdin[o] = PathsOf(submitted[o])

\* C11: a report_information call leaves haveError, every pipe and every worker
\* process as they are, and prints its message exactly when verbose is set; so
\* what finish() returns depends on the report_error calls alone.
C11_InformationFrame ==
  /\ [][\A m \in InfoMessages : ReportInformation(m) =>
          /\ haveError' = haveError
          /\ UNCHANGED <<pipe, result, submitted, rc, fdisp, ddisp>>
          /\ UNCHANGED procVars
          /\ stderr' = IF verbose THEN Append(stderr, m) ELSE stderr]_vars
  /\ [](pc = "done" => rc = IF ErrorReported THEN Int(1) ELSE Int(0))

\* C11's case: without verbose, report_information was called (and nothing
\* else), nothing was printed and finish() has returned 0.
C11_Witness ==
  /\ ~verbose
  /\ ncalls >= 1 /\ fdisp = <<>> /\ ddisp = <<>> /\ stderr = <<>>
  /\ pc = "done" /\ rc = Int(0)

\* C12: the input of a Worker's xargs is closed only after None was received
\* and with every path received before it written; a result is sent only with
\* the input closed and xargs waited for.
C12_CloseAfterSentinel ==
  \A s \in Slots :
    /\ StdinClosed(s) => (SentinelReceived(s) /\ xstdin[s] = Consumed(s))
    /\ result[s] # <<>> => (StdinClosed(s) /\ returncode[s] # None)

\* What worker process s has received so far, None included.
Received(s) == SubSeq(submitted[s], 1, Len(submitted[s]) - Len(pipe[s]))

\* C13: no path, '' included, is taken for the sentinel, and no path makes the
\* loop of runner() stop receiving: a worker process that was started and no
\* longer receives has received None last.
C13_OnlySentinelStopsLoop ==
  \A s \in Slots :
    (xargs[s] /\ rpc[s] # "recv") =>
      (Received(s) # <<>> /\ Received(s)[Len(Received(s))] = None)

\* C14: after a traversal error (a report_error call of the driver) the run
\* still comes to its end: finish() is reached and returns 1 (stated for the
\* runs in which every xargs could be started).
C14_TraversalErrorNotFatal ==
  (Quiescent /\ NoSpawnFailure /\ ErrorReported) => (pc = "done" /\ rc = Int(1))

\* A step of the main process (the driver and the Manager's methods) leaves
\* every worker process where it is; a step of a worker process leaves the
\* Manager's fields and the driver where they are.
MainStep == UNCHANGED procVars
WorkerStep(s) == rpc'[s] # rpc[s] /\ UNCHANGED mgrVars

\* C15: the error flag is written only in steps of the main process, and only
\* where the driver or finish() is, so never concurrently and never by a worker
\* process; the intake pipe of a Worker gets items only in steps of the main
\* process and loses them only in steps of that Worker's own runner() loop.
C15_SingleWriter ==
  [][ /\ haveError' # haveError => (MainStep /\ pc \in {"main", "gohome"})
      /\ \A s \in Slots :
           /\ Len(pipe'[s]) > Len(pipe[s]) =>
                (MainStep /\ pc \in {"dispatch", "finish"})
           /\ Len(pipe'[s]) < Len(pipe[s]) =>
                (WorkerStep(s) /\ rpc[s] = "recv")
           /\ Len(submitted'[s]) # Len(submitted[s]) => MainStep ]_vars

\* The flag has been written, and a Worker's pipe has been written by the
\* Manager and read by that Worker's runner().
C15_Witness ==
  /\ haveError
  /\ \E s \in Slots : submitted[s] # <<>> /\ pipe[s] = <<>> /\ rpc[s] = "crashed_print"

\* fire() has sent None to the Worker of slot s.
SentinelSent(s) == None \in Range(submitted[s])
\* gohome() has received the result of the Worker of slot s.
ResultReceived(s) == result[s] # <<>>

C17_FlagMonotonic ==
  /\ ~haveError
  /\ [][haveError => haveError']_vars
  /\ [](haveError <=> ErrorReported)
  /\ []((pc = "done" /\ ErrorReported) => (haveError /\ rc = Int(1)))

\* report_error was called first, report_information after it, and finish()
\* has returned 1.
C17_Witness ==
  /\ Len(stderr) = 2 /\ stderr[1] \in Messages /\ stderr[2] \in InfoMessages
  /\ haveError
  /\ pc = "done" /\ rc = Int(1)

\* How many times fire() has sent None to the Worker of slot s.
SentinelCount(s) == Len(submitted[s]) - Len(PathsOf(submitted[s]))

\* C18: when the run that main() drives is over (finish() was called and
\* nothing can take a step any more), every created Worker has been sent None
\* exactly once, and after all of its paths (stated for the runs in which every
\* xargs could be started).
C18_SentinelOncePerWorker ==
  (Quiescent /\ NoSpawnFailure /\ pc \in {"finish", "gohome", "done"}) =>
    \A s \in Slots :
      worker[s] =>
        /\ SentinelCount(s) = 1
        /\ submitted[s][Len(submitted[s])] = None

====
